---- MODULE Spec2Model ----
(***************************************************************************)
(* The sequence-alignment and scoring engine of src/algorithm.py:          *)
(* levenshtein_matrix, get_pronunciation_score and compare_words.          *)
(*                                                                         *)
(* Data representation.  A Python str is a sequence of one-character       *)
(* strings (<<"a", " ", "B">> is "a B").  None is the one-element sequence *)
(* <<"None">>, which is no str because "None" is no character.  A float    *)
(* score is kept in hundredths (100.0 is 10000, 94.74 is 9474).  The       *)
(* matrix is a sequence of rows, matrix[i][j] of the code being            *)
(* Cell(matrix, i, j).  An alignment entry is the dictionary of the code.  *)
(***************************************************************************)
EXTENDS Integers, Sequences, FiniteSets, TLC

(***************************************************************************)
(* Bounds of the model.                                                    *)
(***************************************************************************)
\* longest sequence given to levenshtein_matrix directly
MaxSeqLen == 3
\* most characters in the two raw strings given to get_pronunciation_score
\* together (the strings of the test cases aside)
MaxScoreChars == 4
\* most words in a text given to compare_words
MaxWords == 4
\* most words in a text, and most tokens in a sequence, of the calls that are
\* made again
MaxRepeatWords == 1

(***************************************************************************)
(* Values.                                                                 *)
(***************************************************************************)
None == <<"None">>

\* arguments that are neither str nor None: an int and a list, and the bytes
\* b"a" (a sequence of one byte, which no character of a str equals)
IntArg == <<"int">>
ListArg == <<"list">>
BytesArg == <<"x61">>

\* the values without the attributes lower and strip
NoLower == {None, IntArg, ListArg}

Whitespace == {" ", "\t"}

\* str.lower() on the characters the inputs are made of
LowerChar(c) ==
    CASE c = "A" -> "a"
      [] c = "B" -> "b"
      [] c = "T" -> "t"
      [] c = "H" -> "h"
      [] c = "I" -> "i"
      [] OTHER -> c

lower(s) == [k \in 1..Len(s) |-> LowerChar(s[k])]

RECURSIVE lstrip(_)
lstrip(s) ==
    IF s # <<>> /\ Head(s) \in Whitespace THEN lstrip(Tail(s)) ELSE s

RECURSIVE rstrip(_)
rstrip(s) ==
    IF s # <<>> /\ s[Len(s)] \in Whitespace
    THEN rstrip(SubSeq(s, 1, Len(s) - 1))
    ELSE s

\* str.strip(): surrounding whitespace removed
strip(s) == rstrip(lstrip(s))

\* str.split() with no separator: the maximal runs of non-whitespace, in order.
\* words are the finished words, cur the word being read.
RECURSIVE SplitFrom(_, _, _)
SplitFrom(s, words, cur) ==
    IF s = <<>>
    THEN IF cur = <<>> THEN words ELSE Append(words, cur)
    ELSE IF Head(s) \in Whitespace
         THEN SplitFrom(Tail(s), IF cur = <<>> THEN words ELSE Append(words, cur), <<>>)
         ELSE SplitFrom(Tail(s), words, Append(cur, Head(s)))

split(s) == SplitFrom(s, <<>>, <<>>)

\* `if s is None: s = ""`
NoneAsEmptyUnguarded(s) == s
NoneAsEmpty(s) == IF s = None THEN <<>> ELSE s

Min3WithoutDiagonal(a, b, c) == IF a <= b THEN a ELSE b
Min3(a, b, c) ==
    IF a <= b THEN (IF a <= c THEN a ELSE c) ELSE (IF b <= c THEN b ELSE c)

Max2(a, b) == IF a >= b THEN a ELSE b

Reverse(s) == [k \in 1..Len(s) |-> s[Len(s) + 1 - k]]

(***************************************************************************)
(* levenshtein_matrix: the rows are filled top to bottom, each row left to *)
(* right, as the two nested loops of the code do.                          *)
(***************************************************************************)
Cell(m, i, j) == m[i + 1][j + 1]

\* `cost = 0 if seq1[i-1] == seq2[j-1] else 1`
CostAlwaysOne(x, y) == 1
CostCaseFolded(x, y) == IF LowerChar(x) = LowerChar(y) THEN 0 ELSE 1
CostMismatchTwo(x, y) == IF x = y THEN 0 ELSE 2
CostInverted(x, y) == IF x = y THEN 1 ELSE 0
Cost(x, y) == IF x = y THEN 0 ELSE 1

\* row i of the matrix, given row i-1 (prev) and the cells of row i so far
RECURSIVE FillRow(_, _, _, _, _)
FillRow(prev, row, seq1, seq2, i) ==
    IF Len(row) = Len(seq2) + 1
    THEN row
    ELSE LET j == Len(row)
             v == Min3(prev[j + 1] + 1,                      \* matrix[i-1][j] + 1
                       row[j] + 1,                           \* matrix[i][j-1] + 1
                       prev[j] + Cost(seq1[i], seq2[j]))     \* matrix[i-1][j-1] + cost
         IN  FillRow(prev, Append(row, v), seq1, seq2, i)

\* the rows from row Len(m) on, given the rows m above them; row i starts with
\* `matrix[i][0] = i`
RECURSIVE FillRowsFirstColumnZero(_, _, _)
FillRowsFirstColumnZero(m, seq1, seq2) ==
    IF Len(m) = Len(seq1) + 1
    THEN m
    ELSE LET i == Len(m)
         IN  FillRowsFirstColumnZero(Append(m, FillRow(m[i], <<0>>, seq1, seq2, i)),
                                     seq1, seq2)
RECURSIVE FillRows(_, _, _)
FillRows(m, seq1, seq2) ==
    IF Len(m) = Len(seq1) + 1
    THEN m
    ELSE LET i == Len(m)
         IN  FillRows(Append(m, FillRow(m[i], <<i>>, seq1, seq2, i)), seq1, seq2)

levenshtein_matrix(seq1, seq2) ==
    FillRows(<< [c \in 1..(Len(seq2) + 1) |-> c - 1] >>, seq1, seq2)

\* `distance = matrix[-1][-1]` of the matrix of a and b
Distance(a, b) == Cell(levenshtein_matrix(a, b), Len(a), Len(b))

(***************************************************************************)
(* get_pronunciation_score.                                                *)
(***************************************************************************)
\* `s.lower().strip()`
NormalizeStripOnly(s) == strip(s)
Normalize(s) == strip(lower(s))

\* round(x, 2) of x = num / den hundredths: the nearest integer, ties to even
RoundTruncating(num, den) == num \div den
Round(num, den) ==
    LET q == num \div den
        r == num % den
    IN  IF 2 * r < den THEN q
        ELSE IF 2 * r > den THEN q + 1
        ELSE IF q % 2 = 0 THEN q ELSE q + 1

\* the early returns on empty normalized strings: "both", "one" or "neither"
EmptyCaseOneFirst(n1, n2) ==
    IF n1 = <<>> \/ n2 = <<>> THEN "one"
    ELSE "neither"
EmptyCase(n1, n2) ==
    IF n1 = <<>> /\ n2 = <<>> THEN "both"
    ELSE IF n1 = <<>> \/ n2 = <<>> THEN "one"
    ELSE "neither"

\* the outcome of one call: the exception raised ("none" when it returns), the
\* locals distance and max_len, and the score returned
Outcome(e, d, ml, sc) == [exc |-> e, distance |-> d, max_len |-> ml, score |-> sc]

\* from `distance = matrix[-1][-1]` to the return
ScoreOfDistance(d, ml) ==
    IF ml = 0
    THEN Outcome("none", d, ml, 10000)
    ELSE Outcome("none", d, ml, Max2(0, Round(10000 * (ml - d), ml)))

\* from the normalized strings to the return
ScoreOfNormalized(n1, n2, ec) ==
    IF ec = "both" THEN Outcome("none", 0, 0, 10000)
    ELSE IF ec = "one" THEN Outcome("none", 0, 0, 0)
    ELSE ScoreOfDistance(Cell(levenshtein_matrix(n1, n2), Len(n1), Len(n2)),
                         Max2(Len(n1), Len(n2)))

\* from the arguments, None replaced, to the return
ScoreOfStringsValidated(e1, e2) ==
    IF e1 \in NoLower \/ e2 \in NoLower \/ e1 = BytesArg \/ e2 = BytesArg
    THEN Outcome("InvalidInputError", 0, 0, 0)
    ELSE ScoreOfNormalized(Normalize(e1), Normalize(e2),
                           EmptyCase(Normalize(e1), Normalize(e2)))
ScoreOfStrings(e1, e2) ==
    IF e1 \in NoLower \/ e2 \in NoLower
    THEN \* the value has no attribute lower (or strip)
         Outcome("AttributeError", 0, 0, 0)
    ELSE ScoreOfNormalized(Normalize(e1), Normalize(e2),
                           EmptyCase(Normalize(e1), Normalize(e2)))

get_pronunciation_score(a1, a2) == ScoreOfStrings(NoneAsEmpty(a1), NoneAsEmpty(a2))

(***************************************************************************)
(* compare_words: the arms of the if/elif chain of the backtracking loop.  *)
(***************************************************************************)
BranchInsertionUnchecked(w1, w2l, m, ci, cj) ==
    IF ci > 0 /\ cj > 0 /\ w1[ci] = w2l[cj] THEN "match"
    ELSE IF ci > 0 /\ cj > 0 /\ Cell(m, ci, cj) = Cell(m, ci - 1, cj - 1) + 1
    THEN "substitution"
    ELSE IF cj > 0 THEN "insertion"
    ELSE IF ci > 0 /\ Cell(m, ci, cj) = Cell(m, ci - 1, cj) + 1 THEN "deletion"
    ELSE "fallback_up"
BranchDeletionForgotten(w1, w2l, m, ci, cj) ==
    IF ci > 0 /\ cj > 0 /\ w1[ci] = w2l[cj] THEN "match"
    ELSE IF ci > 0 /\ cj > 0 /\ Cell(m, ci, cj) = Cell(m, ci - 1, cj - 1) + 1
    THEN "substitution"
    ELSE IF cj > 0 /\ Cell(m, ci, cj) = Cell(m, ci, cj - 1) + 1 THEN "insertion"
    ELSE IF cj > 0 THEN "fallback_left"
    ELSE "fallback_up"
BranchInsertionFirst(w1, w2l, m, ci, cj) ==
    IF cj > 0 /\ Cell(m, ci, cj) = Cell(m, ci, cj - 1) + 1 THEN "insertion"
    ELSE IF ci > 0 /\ cj > 0 /\ w1[ci] = w2l[cj] THEN "match"
    ELSE IF ci > 0 /\ cj > 0 /\ Cell(m, ci, cj) = Cell(m, ci - 1, cj - 1) + 1
    THEN "substitution"
    ELSE IF ci > 0 /\ Cell(m, ci, cj) = Cell(m, ci - 1, cj) + 1 THEN "deletion"
    ELSE IF cj > 0 THEN "fallback_left"
    ELSE "fallback_up"

BranchSubstitutionLast(w1, w2l, m, ci, cj) ==
    IF ci > 0 /\ cj > 0 /\ w1[ci] = w2l[cj] THEN "match"
    ELSE IF cj > 0 /\ Cell(m, ci, cj) = Cell(m, ci, cj - 1) + 1 THEN "insertion"
    ELSE IF ci > 0 /\ Cell(m, ci, cj) = Cell(m, ci - 1, cj) + 1 THEN "deletion"
    ELSE IF ci > 0 /\ cj > 0 /\ Cell(m, ci, cj) = Cell(m, ci - 1, cj - 1) + 1
    THEN "substitution"
    ELSE IF cj > 0 THEN "fallback_left"
    ELSE "fallback_up"

BranchInsertionInsideOnly(w1, w2l, m, ci, cj) ==
    IF ci > 0 /\ cj > 0 /\ w1[ci] = w2l[cj] THEN "match"
    ELSE IF ci > 0 /\ cj > 0 /\ Cell(m, ci, cj) = Cell(m, ci - 1, cj - 1) + 1
    THEN "substitution"
    ELSE IF ci > 0 /\ cj > 0 /\ Cell(m, ci, cj) = Cell(m, ci, cj - 1) + 1
    THEN "insertion"
    ELSE IF ci > 0 /\ Cell(m, ci, cj) = Cell(m, ci - 1, cj) + 1 THEN "deletion"
    ELSE IF cj > 0 THEN "fallback_left"
    ELSE "fallback_up"
Branch(w1, w2l, m, ci, cj) ==
    IF ci > 0 /\ cj > 0 /\ w1[ci] = w2l[cj] THEN "match"
    ELSE IF ci > 0 /\ cj > 0 /\ Cell(m, ci, cj) = Cell(m, ci - 1, cj - 1) + 1
    THEN "substitution"
    ELSE IF cj > 0 /\ Cell(m, ci, cj) = Cell(m, ci, cj - 1) + 1 THEN "insertion"
    ELSE IF ci > 0 /\ Cell(m, ci, cj) = Cell(m, ci - 1, cj) + 1 THEN "deletion"
    ELSE IF cj > 0 THEN "fallback_left"
    ELSE "fallback_up"

Entry(w, c, s) == [word |-> w, color |-> c, status |-> s]

\* what the arm appends to alignment
EmittedSubstitutionAsCorrect(b, w) ==
    CASE b = "match"         -> <<Entry(w, "green", "correct")>>
      [] b = "substitution"  -> <<Entry(w, "green", "correct")>>
      [] b = "insertion"     -> <<Entry(w, "red", "insertion")>>
      [] b = "fallback_left" -> <<Entry(w, "red", "unknown")>>
      [] OTHER               -> <<>>
EmittedAlsoOnDeletion(b, w) ==
    CASE b = "match"         -> <<Entry(w, "green", "correct")>>
      [] b = "substitution"  -> <<Entry(w, "red", "substitution")>>
      [] b = "insertion"     -> <<Entry(w, "red", "insertion")>>
      [] b = "fallback_left" -> <<Entry(w, "red", "unknown")>>
      [] OTHER               -> <<Entry(w, "gray", "missing")>>
Emitted(b, w) ==
    CASE b = "match"         -> <<Entry(w, "green", "correct")>>
      [] b = "substitution"  -> <<Entry(w, "red", "substitution")>>
      [] b = "insertion"     -> <<Entry(w, "red", "insertion")>>
      [] b = "fallback_left" -> <<Entry(w, "red", "unknown")>>
      [] OTHER               -> <<>>

\* what the arm subtracts from i and from j
DeltaIKeptOnSubstitution(b) ==
    IF b \in {"match", "deletion", "fallback_up"} THEN 1 ELSE 0
DeltaIStuckDeletion(b) ==
    IF b \in {"match", "substitution", "fallback_up"} THEN 1 ELSE 0
DeltaI(b) == IF b \in {"match", "substitution", "deletion", "fallback_up"} THEN 1 ELSE 0
DeltaJKeptOnSubstitution(b) ==
    IF b \in {"match", "insertion", "fallback_left"} THEN 1 ELSE 0
DeltaJ(b) == IF b \in {"match", "substitution", "insertion", "fallback_left"} THEN 1 ELSE 0

\* `return alignment[::-1]`
ReturnedUnreversed(al) == al
Returned(al) == Reverse(al)

\* `words2_lower = [w.lower() for w in words2]`
LowerWordsForgotten(ws) == ws
LowerWords(ws) == [k \in 1..Len(ws) |-> lower(ws[k])]

\* the backtracking loop run from cell (ci, cj) with the entries al to its end,
\* and the list returned; WalkStep is one iteration, b being the arm taken
RECURSIVE Walk(_, _, _, _, _, _, _)
RECURSIVE WalkStep(_, _, _, _, _, _, _, _)
WalkStep(w1, w2, w2l, m, ci, cj, al, b) ==
    Walk(w1, w2, w2l, m, ci - DeltaI(b), cj - DeltaJ(b),
         al \o Emitted(b, IF cj > 0 THEN w2[cj] ELSE <<>>))
Walk(w1, w2, w2l, m, ci, cj, al) ==
    IF ci > 0 \/ cj > 0
    THEN WalkStep(w1, w2, w2l, m, ci, cj, al, Branch(w1, w2l, m, ci, cj))
    ELSE Returned(al)

\* compare_words from the word lists on
Aligned(w1, w2, w2l) ==
    Walk(w1, w2, w2l, levenshtein_matrix(w1, w2l), Len(w1), Len(w2), <<>>)

\* compare_words from the arguments, None replaced, on
CompareOfStrings(e1, e2) ==
    IF e1 \in NoLower \/ e2 \in NoLower
    THEN [exc |-> "AttributeError", result |-> <<>>]
    ELSE [exc |-> "none",
          result |-> Aligned(split(strip(lower(e1))), split(strip(e2)),
                             LowerWords(split(strip(e2))))]

\* a whole call of compare_words: what it raises and what it returns
compare_words(a1, a2) == CompareOfStrings(NoneAsEmpty(a1), NoneAsEmpty(a2))

(***************************************************************************)
(* The inputs of the calls.                                                *)
(***************************************************************************)
RECURSIVE SeqsUpTo(_, _)
SeqsUpTo(n, S) ==
    IF n = 0 THEN {<<>>}
    ELSE LET shorter == SeqsUpTo(n - 1, S)
         IN  shorter \cup {Append(s, x) : s \in shorter, x \in S}

\* the sequences given to levenshtein_matrix directly: strings over two
\* letters, and two with a capital letter
MatrixSeqs == SeqsUpTo(MaxSeqLen, {"a", "b"}) \cup {<<"A">>, <<"a", "A">>}

\* the raw strings given to get_pronunciation_score: of n characters exactly,
\* and of n characters at most with None among them
ScoreChars == {"a", "A", "b", " "}
StringsOfLen(n) == {s \in SeqsUpTo(n, ScoreChars) : Len(s) = n}
StringsUpTo(n) == SeqsUpTo(n, ScoreChars) \cup {None}

\* the strings of the test cases 1, 2 and 4 of the code
HelloWorld == <<"H","e","l","l","o"," ","w","o","r","l","d">>
QuickBrownFox ==
    <<"T","h","e"," ","q","u","i","c","k"," ","b","r","o","w","n"," ","f","o","x">>
QuickBrwnFox ==
    <<"T","h","e"," ","q","u","i","c","k"," ","b","r","w","n"," ","f","o","x">>
ThisIsATest == <<"T","h","i","s"," ","i","s"," ","a"," ","t","e","s","t">>
ThisIsTest == <<"T","h","i","s"," ","i","s"," ","t","e","s","t">>

\* the strings of the test case 3 of the code
ILikeToCode == <<"I"," ","l","i","k","e"," ","t","o"," ","c","o","d","e">>
ILoveCoding == <<"I"," ","l","o","v","e"," ","c","o","d","i","n","g">>

ScoreInputs ==
    UNION {StringsOfLen(n) \X StringsUpTo(MaxScoreChars - n) : n \in 0..MaxScoreChars}
        \cup ({None} \X StringsUpTo(MaxScoreChars))
        \cup {<<HelloWorld, HelloWorld>>, <<QuickBrownFox, QuickBrwnFox>>,
              <<ThisIsATest, ThisIsTest>>}

\* the texts given to compare_words: up to MaxWords words, written with single
\* blanks or with a leading tab, double blanks and a trailing blank; and None
Words == {<<"a">>, <<"B", "a">>}

RECURSIVE Join(_, _)
Join(ws, gap) ==
    IF ws = <<>> THEN <<>>
    ELSE IF Len(ws) = 1 THEN ws[1]
    ELSE ws[1] \o gap \o Join(Tail(ws), gap)

Texts ==
    {Join(ws, <<" ">>) : ws \in SeqsUpTo(MaxWords, Words)}
        \cup {<<"\t">> \o Join(ws, <<" ", " ">>) \o <<" ">> : ws \in SeqsUpTo(MaxWords, Words)}
        \cup {None}

\* the pairs of texts given to compare_words: the texts above, and the pairs
\* of the test cases 1 to 4 of the code
CompareInputs ==
    (Texts \X Texts)
        \cup {<<HelloWorld, HelloWorld>>, <<QuickBrownFox, QuickBrwnFox>>,
              <<ILikeToCode, ILoveCoding>>, <<ThisIsATest, ThisIsTest>>}

(***************************************************************************)
(* The state: the operation in progress, its arguments, its locals and its *)
(* result.  branch (the arm the last iteration took) and steps (the        *)
(* iterations so far) record the course of the backtracking loop.          *)
(***************************************************************************)
VARIABLES op, pc, s1, s2, words1, words2, words2_lower, matrix, i, j,
          alignment, result, distance, max_len, score, exc, branch, steps

\* seen is a call made earlier, kept to compare a later call with; inv holds the
\* invocations that run concurrently, each with its own locals
VARIABLES seen, inv

\* the word index: root holds the TrieNodes reachable from Trie.root, each
\* under the characters that lead to it (the root under the empty path), a
\* node's children being the keys of its dict; word_count is Trie.word_count.
\* added records the arguments insert_word was called with, and asked the
\* last call on the trie with what it returned.
VARIABLES root, word_count, added, asked

index == <<root, word_count, added, asked>>

\* the variables of one call at a time
sequential == <<op, pc, s1, s2, words1, words2, words2_lower, matrix, i, j,
                alignment, result, distance, max_len, score, exc, branch, steps>>

\* the variables the calls made one at a time leave alone
beside == <<seen, inv, index>>

vars == <<sequential, seen, inv, index>>

\* no call kept
NoCall ==
    [op |-> "none", s1 |-> <<>>, s2 |-> <<>>, exc |-> "none", result |-> <<>>,
     score |-> 0, between |-> FALSE]

\* the invocations that run concurrently
Invocations == {1, 2}

\* an invocation not started: no operation, and locals not yet created.  seq1
\* and seq2 are the sequences the matrix is built from, rows of it being added
\* one by one
Idle ==
    [op |-> "none", pc |-> "idle", s1 |-> <<>>, s2 |-> <<>>, seq1 |-> <<>>,
     seq2 |-> <<>>, words2 |-> <<>>, matrix |-> <<>>, i |-> 0, j |-> 0,
     alignment |-> <<>>, result |-> <<>>, score |-> 0, exc |-> "none"]

AllIdle == [p \in Invocations |-> Idle]

\* TrieNode(): no children, no word ending here
TrieNode == [children |-> {}, is_end_of_word |-> FALSE, word |-> None]

\* no call made on the trie yet
NotAsked ==
    [op |-> "none", word |-> <<>>, max_suggestions |-> 0, found |-> FALSE,
     suggestions |-> <<>>, count |-> 0]

Init ==
    /\ op = "none"
    /\ pc = "idle"
    /\ s1 = <<>>
    /\ s2 = <<>>
    /\ words1 = <<>>
    /\ words2 = <<>>
    /\ words2_lower = <<>>
    /\ matrix = <<>>
    /\ i = 0
    /\ j = 0
    /\ alignment = <<>>
    /\ result = <<>>
    /\ distance = 0
    /\ max_len = 0
    /\ score = 0
    /\ exc = "none"
    /\ branch = "none"
    /\ steps = 0
    /\ seen = NoCall
    /\ inv = AllIdle
    /\ root = [path \in {<<>>} |-> TrieNode]
    /\ word_count = 0
    /\ added = {}
    /\ asked = NotAsked

\* a call of levenshtein_matrix(seq1, seq2)
MatrixCall ==
    /\ pc = "idle"
    /\ \E a \in MatrixSeqs, b \in MatrixSeqs :
          /\ s1' = a
          /\ s2' = b
          /\ matrix' = levenshtein_matrix(a, b)
    /\ op' = "levenshtein_matrix"
    /\ pc' = "done"
    /\ UNCHANGED <<words1, words2, words2_lower, i, j, alignment, result,
                   distance, max_len, score, exc, branch, steps>>
    /\ UNCHANGED beside

\* a call of get_pronunciation_score(s1, s2) with outcome r
Scored(a, b, r) ==
    /\ s1' = a
    /\ s2' = b
    /\ exc' = r.exc
    /\ distance' = r.distance
    /\ max_len' = r.max_len
    /\ score' = r.score

ScoreCall ==
    /\ pc = "idle"
    /\ \E p \in ScoreInputs : Scored(p[1], p[2], get_pronunciation_score(p[1], p[2]))
    /\ op' = "get_pronunciation_score"
    /\ pc' = "done"
    /\ UNCHANGED <<words1, words2, words2_lower, matrix, i, j, alignment,
                   result, branch, steps>>
    /\ UNCHANGED beside

\* compare_words from the word lists to the start of the backtracking loop
Tokenized(w1, w2, w2l) ==
    /\ words1' = w1
    /\ words2' = w2
    /\ words2_lower' = w2l
    /\ matrix' = levenshtein_matrix(w1, w2l)
    /\ i' = Len(w1)
    /\ j' = Len(w2)
    /\ exc' = "none"
    /\ pc' = "loop"

\* compare_words from the arguments, None replaced, to the start of the loop
ComparedReferenceAsWritten(e1, e2) ==
    IF e1 \in NoLower \/ e2 \in NoLower
    THEN /\ exc' = "AttributeError"
         /\ pc' = "done"
         /\ UNCHANGED <<words1, words2, words2_lower, matrix, i, j>>
    ELSE Tokenized(split(strip(e1)), split(strip(e2)), LowerWords(split(strip(e2))))
Compared(e1, e2) ==
    IF e1 \in NoLower \/ e2 \in NoLower
    THEN \* the value has no attribute lower (or strip)
         /\ exc' = "AttributeError"
         /\ pc' = "done"
         /\ UNCHANGED <<words1, words2, words2_lower, matrix, i, j>>
    ELSE Tokenized(split(strip(lower(e1))), split(strip(e2)),
                   LowerWords(split(strip(e2))))

\* a call of compare_words(s1, s2), up to the start of the backtracking loop
CompareCall ==
    /\ pc = "idle"
    /\ \E p \in CompareInputs :
          /\ s1' = p[1]
          /\ s2' = p[2]
          /\ Compared(NoneAsEmpty(p[1]), NoneAsEmpty(p[2]))
    /\ op' = "compare_words"
    /\ UNCHANGED <<alignment, result, distance, max_len, score, branch, steps>>
    /\ UNCHANGED beside

\* one iteration of the loop, b being the arm taken
Stepped(b) ==
    /\ branch' = b
    /\ alignment' = alignment \o Emitted(b, IF j > 0 THEN words2[j] ELSE <<>>)
    /\ i' = i - DeltaI(b)
    /\ j' = j - DeltaJ(b)

\* one iteration of `while i > 0 or j > 0`
Backtrack ==
    /\ pc = "loop"
    /\ i > 0 \/ j > 0
    /\ Stepped(Branch(words1, words2_lower, matrix, i, j))
    /\ steps' = steps + 1
    /\ UNCHANGED <<op, pc, s1, s2, words1, words2, words2_lower, matrix,
                   result, distance, max_len, score, exc>>
    /\ UNCHANGED beside

\* the loop ends and the reversed alignment is returned
CompareReturn ==
    /\ pc = "loop"
    /\ ~(i > 0 \/ j > 0)
    /\ result' = Returned(alignment)
    /\ pc' = "done"
    /\ UNCHANGED <<op, s1, s2, words1, words2, words2_lower, matrix, i, j,
                   alignment, distance, max_len, score, exc, branch, steps>>
    /\ UNCHANGED beside

\* the call is over: every local of it is discarded, and the next call starts
\* with locals of its own (`matrix = [[0] * cols ...]`, `alignment = []`)
DiscardedButAlignment ==
    /\ op' = "none"
    /\ pc' = "idle"
    /\ s1' = <<>>
    /\ s2' = <<>>
    /\ words1' = <<>>
    /\ words2' = <<>>
    /\ words2_lower' = <<>>
    /\ matrix' = <<>>
    /\ i' = 0
    /\ j' = 0
    /\ alignment' = alignment
    /\ result' = <<>>
    /\ distance' = 0
    /\ max_len' = 0
    /\ score' = 0
    /\ exc' = "none"
    /\ branch' = "none"
    /\ steps' = 0
Discarded ==
    /\ op' = "none"
    /\ pc' = "idle"
    /\ s1' = <<>>
    /\ s2' = <<>>
    /\ words1' = <<>>
    /\ words2' = <<>>
    /\ words2_lower' = <<>>
    /\ matrix' = <<>>
    /\ i' = 0
    /\ j' = 0
    /\ alignment' = <<>>
    /\ result' = <<>>
    /\ distance' = 0
    /\ max_len' = 0
    /\ score' = 0
    /\ exc' = "none"
    /\ branch' = "none"
    /\ steps' = 0

\* the caller takes the result
Finish ==
    /\ pc = "done"
    /\ Discarded
    /\ UNCHANGED beside

Next ==
    \/ MatrixCall
    \/ ScoreCall
    \/ CompareCall
    \/ Backtrack
    \/ CompareReturn
    \/ Finish

Spec == Init /\ [][Next]_vars

(***************************************************************************)
(* The calls with an argument that is neither a string nor None.           *)
(***************************************************************************)
NonTextArgs == {IntArg, ListArg, BytesArg}

ScoreInputsNonText ==
    (NonTextArgs \X StringsUpTo(MaxScoreChars))
        \cup (StringsUpTo(MaxScoreChars) \X NonTextArgs)
        \cup (NonTextArgs \X NonTextArgs)

CompareInputsNonText ==
    (NonTextArgs \X Texts) \cup (Texts \X NonTextArgs) \cup (NonTextArgs \X NonTextArgs)

ScoreCallNonText ==
    /\ pc = "idle"
    /\ \E p \in ScoreInputsNonText :
          Scored(p[1], p[2], get_pronunciation_score(p[1], p[2]))
    /\ op' = "get_pronunciation_score"
    /\ pc' = "done"
    /\ UNCHANGED <<words1, words2, words2_lower, matrix, i, j, alignment,
                   result, branch, steps>>
    /\ UNCHANGED beside

CompareCallNonText ==
    /\ pc = "idle"
    /\ \E p \in CompareInputsNonText :
          /\ s1' = p[1]
          /\ s2' = p[2]
          /\ Compared(NoneAsEmpty(p[1]), NoneAsEmpty(p[2]))
    /\ op' = "compare_words"
    /\ UNCHANGED <<alignment, result, distance, max_len, score, branch, steps>>
    /\ UNCHANGED beside

NextAnyInput ==
    \/ MatrixCall
    \/ ScoreCall
    \/ ScoreCallNonText
    \/ CompareCall
    \/ CompareCallNonText
    \/ Backtrack
    \/ CompareReturn
    \/ Finish

SpecAnyInput == Init /\ [][NextAnyInput]_vars

(***************************************************************************)
(* Calls made one after another, one of them kept: when the caller takes   *)
(* the result of a call of get_pronunciation_score or compare_words, the   *)
(* call may be kept in seen, and seen.between tells that another call has  *)
(* ended since.                                                            *)
(***************************************************************************)
RepeatTexts == {Join(ws, <<" ">>) : ws \in SeqsUpTo(MaxRepeatWords, Words)} \cup {None}

RepeatSeqs == SeqsUpTo(MaxRepeatWords, {"a", "b"})

MatrixCallAgain ==
    /\ pc = "idle"
    /\ \E a \in RepeatSeqs, b \in RepeatSeqs :
          /\ s1' = a
          /\ s2' = b
          /\ matrix' = levenshtein_matrix(a, b)
    /\ op' = "levenshtein_matrix"
    /\ pc' = "done"
    /\ UNCHANGED <<words1, words2, words2_lower, i, j, alignment, result,
                   distance, max_len, score, exc, branch, steps>>
    /\ UNCHANGED beside

ScoreCallAgain ==
    /\ pc = "idle"
    /\ \E a \in RepeatTexts, b \in RepeatTexts :
          Scored(a, b, get_pronunciation_score(a, b))
    /\ op' = "get_pronunciation_score"
    /\ pc' = "done"
    /\ UNCHANGED <<words1, words2, words2_lower, matrix, i, j, alignment,
                   result, branch, steps>>
    /\ UNCHANGED beside

CompareCallAgain ==
    /\ pc = "idle"
    /\ \E a \in RepeatTexts, b \in RepeatTexts :
          /\ s1' = a
          /\ s2' = b
          /\ Compared(NoneAsEmpty(a), NoneAsEmpty(b))
    /\ op' = "compare_words"
    /\ UNCHANGED <<alignment, result, distance, max_len, score, branch, steps>>
    /\ UNCHANGED beside

\* the call that has just returned
ThisCall ==
    [op |-> op, s1 |-> s1, s2 |-> s2, exc |-> exc, result |-> result,
     score |-> score, between |-> FALSE]

\* the call kept, once another call has ended
Later(c) == IF c.op = "none" THEN c ELSE [c EXCEPT !.between = TRUE]

\* the caller takes the result, and the call is kept
FinishKept ==
    /\ pc = "done"
    /\ op \in {"get_pronunciation_score", "compare_words"}
    /\ seen = NoCall
    /\ Discarded
    /\ seen' = ThisCall
    /\ UNCHANGED <<inv, index>>

\* the caller takes the result, and the call is not kept
FinishNoted ==
    /\ pc = "done"
    /\ Discarded
    /\ seen' = Later(seen)
    /\ UNCHANGED <<inv, index>>

NextRepeat ==
    \/ MatrixCallAgain
    \/ ScoreCallAgain
    \/ CompareCallAgain
    \/ Backtrack
    \/ CompareReturn
    \/ FinishKept
    \/ FinishNoted

SpecRepeat == Init /\ [][NextRepeat]_vars

(***************************************************************************)
(* Invocations run concurrently: each step below is a step of one          *)
(* invocation p, and the steps of the invocations interleave in any order. *)
(* A step is the entry of a function up to the first row of the matrix,    *)
(* one row of the matrix, one iteration of the backtracking loop, or a     *)
(* return.                                                                 *)
(***************************************************************************)
ConcurrentTexts == {None, <<"a">>, <<"a", " ", "B", "a">>}

ConcurrentSeqs == {<<>>, <<"a">>, <<"a", "b">>}

\* the invocation whose entry list invocation p appends to and returns: its
\* own, `alignment = []` making a new list in every invocation
EntryListShared(p) == 1
EntryList(p) == p

\* invocation p enters operation o with arguments a and b; q1 and q2 are the
\* sequences to build the matrix from, w2 the candidate words as written
Entered(p, o, a, b, q1, q2, w2) ==
    inv' = [inv EXCEPT ![p] =
               [@ EXCEPT !.op = o, !.pc = "fill", !.s1 = a, !.s2 = b,
                         !.seq1 = q1, !.seq2 = q2, !.words2 = w2,
                         !.matrix = << [c \in 1..(Len(q2) + 1) |-> c - 1] >>]]

\* invocation p returns from operation o at once, with outcome r
ReturnedEarly(p, o, a, b, r) ==
    inv' = [inv EXCEPT ![p] =
               [@ EXCEPT !.op = o, !.pc = "done", !.s1 = a, !.s2 = b,
                         !.exc = r.exc, !.score = r.score]]

MatrixEnter(p) ==
    /\ inv[p].pc = "idle"
    /\ \E a \in ConcurrentSeqs, b \in ConcurrentSeqs :
          Entered(p, "levenshtein_matrix", a, b, a, b, <<>>)
    /\ UNCHANGED <<sequential, seen, index>>

\* get_pronunciation_score from the normalized strings on: an early return, or
\* the call of levenshtein_matrix
ScoreEntered(p, a, b, n1, n2, ec) ==
    IF ec = "neither"
    THEN Entered(p, "get_pronunciation_score", a, b, n1, n2, <<>>)
    ELSE ReturnedEarly(p, "get_pronunciation_score", a, b, ScoreOfNormalized(n1, n2, ec))

ScoreEnter(p) ==
    /\ inv[p].pc = "idle"
    /\ \E a \in ConcurrentTexts, b \in ConcurrentTexts :
          ScoreEntered(p, a, b, Normalize(NoneAsEmpty(a)), Normalize(NoneAsEmpty(b)),
                       EmptyCase(Normalize(NoneAsEmpty(a)), Normalize(NoneAsEmpty(b))))
    /\ UNCHANGED <<sequential, seen, index>>

CompareEnter(p) ==
    /\ inv[p].pc = "idle"
    /\ \E a \in ConcurrentTexts, b \in ConcurrentTexts :
          Entered(p, "compare_words", a, b,
                  split(strip(lower(NoneAsEmpty(a)))),
                  LowerWords(split(strip(NoneAsEmpty(b)))),
                  split(strip(NoneAsEmpty(b))))
    /\ UNCHANGED <<sequential, seen, index>>

\* one iteration of `for i in range(1, rows)`: row Len(matrix) is filled
FillNext(p) ==
    /\ inv[p].pc = "fill"
    /\ Len(inv[p].matrix) < Len(inv[p].seq1) + 1
    /\ inv' = [inv EXCEPT ![p].matrix =
                   Append(@, FillRow(@[Len(@)], <<Len(@)>>, inv[p].seq1, inv[p].seq2,
                                     Len(@)))]
    /\ UNCHANGED <<sequential, seen, index>>

\* the matrix is complete and levenshtein_matrix was called directly
MatrixReturn(p) ==
    /\ inv[p].pc = "fill"
    /\ inv[p].op = "levenshtein_matrix"
    /\ Len(inv[p].matrix) = Len(inv[p].seq1) + 1
    /\ inv' = [inv EXCEPT ![p].pc = "done"]
    /\ UNCHANGED <<sequential, seen, index>>

\* the matrix is complete and get_pronunciation_score goes on to its return
ScoreReturn(p) ==
    /\ inv[p].pc = "fill"
    /\ inv[p].op = "get_pronunciation_score"
    /\ Len(inv[p].matrix) = Len(inv[p].seq1) + 1
    /\ inv' = [inv EXCEPT ![p].pc = "done",
                          ![p].score =
                              ScoreOfDistance(
                                  Cell(inv[p].matrix, Len(inv[p].seq1), Len(inv[p].seq2)),
                                  Max2(Len(inv[p].seq1), Len(inv[p].seq2))).score]
    /\ UNCHANGED <<sequential, seen, index>>

\* the matrix is complete and compare_words goes on to its loop:
\* `i, j = len(words1), len(words2)` and `alignment = []`
WalkStart(p) ==
    /\ inv[p].pc = "fill"
    /\ inv[p].op = "compare_words"
    /\ Len(inv[p].matrix) = Len(inv[p].seq1) + 1
    /\ inv' = [inv EXCEPT ![p].pc = "loop",
                          ![p].i = Len(inv[p].seq1),
                          ![p].j = Len(inv[p].words2),
                          ![EntryList(p)].alignment = <<>>]
    /\ UNCHANGED <<sequential, seen, index>>

\* one iteration of the loop of invocation p, b being the arm taken
WalkStepped(p, b) ==
    inv' = [inv EXCEPT ![p].i = @ - DeltaI(b),
                      ![p].j = @ - DeltaJ(b),
                      ![EntryList(p)].alignment =
                          @ \o Emitted(b, IF inv[p].j > 0
                                          THEN inv[p].words2[inv[p].j] ELSE <<>>)]

WalkNext(p) ==
    /\ inv[p].pc = "loop"
    /\ inv[p].i > 0 \/ inv[p].j > 0
    /\ WalkStepped(p, Branch(inv[p].seq1, inv[p].seq2, inv[p].matrix,
                             inv[p].i, inv[p].j))
    /\ UNCHANGED <<sequential, seen, index>>

WalkReturn(p) ==
    /\ inv[p].pc = "loop"
    /\ ~(inv[p].i > 0 \/ inv[p].j > 0)
    /\ inv' = [inv EXCEPT ![p].pc = "done",
                          ![p].result = Returned(inv[EntryList(p)].alignment)]
    /\ UNCHANGED <<sequential, seen, index>>

\* the caller of invocation p takes the result
Taken(p) ==
    /\ inv[p].pc = "done"
    /\ inv' = [inv EXCEPT ![p] = Idle]
    /\ UNCHANGED <<sequential, seen, index>>

NextConcurrent ==
    \/ \E p \in Invocations : MatrixEnter(p)
    \/ \E p \in Invocations : ScoreEnter(p)
    \/ \E p \in Invocations : CompareEnter(p)
    \/ \E p \in Invocations : FillNext(p)
    \/ \E p \in Invocations : MatrixReturn(p)
    \/ \E p \in Invocations : ScoreReturn(p)
    \/ \E p \in Invocations : WalkStart(p)
    \/ \E p \in Invocations : WalkNext(p)
    \/ \E p \in Invocations : WalkReturn(p)
    \/ \E p \in Invocations : Taken(p)

SpecConcurrent == Init /\ [][NextConcurrent]_vars

(***************************************************************************)
(* The word index: Trie of research_engine.py.                             *)
(***************************************************************************)
\* ord(c) of the characters the words are made of
ord(c) ==
    CASE c = "\t" -> 9
      [] c = " " -> 32
      [] c = "A" -> 65
      [] c = "B" -> 66
      [] c = "a" -> 97
      [] c = "b" -> 98
      [] OTHER -> 127

\* sorted(node.children.keys()) handing the keys out largest first
RECURSIVE sortedDescending(_)
sortedDescending(keys) ==
    IF keys = {} THEN <<>>
    ELSE LET last == CHOOSE c \in keys : \A d \in keys : ord(d) <= ord(c)
         IN  <<last>> \o sortedDescending(keys \ {last})

\* sorted(node.children.keys()): the keys in ascending order of code point
RECURSIVE sorted(_)
sorted(keys) ==
    IF keys = {} THEN <<>>
    ELSE LET first == CHOOSE c \in keys : \A d \in keys : ord(c) <= ord(d)
         IN  <<first>> \o sorted(keys \ {first})

\* the loop of insert_word from current_node = the node at path, rest being
\* the characters still to read: a child is created where there is none
RECURSIVE InsertChars(_, _, _)
InsertChars(t, path, rest) ==
    IF rest = <<>> THEN t
    ELSE IF Head(rest) \notin t[path].children
    THEN InsertChars(
             [n \in DOMAIN t \cup {Append(path, Head(rest))} |->
                 IF n = Append(path, Head(rest)) THEN TrieNode
                 ELSE IF n = path
                 THEN [t[n] EXCEPT !.children = @ \cup {Head(rest)}]
                 ELSE t[n]],
             Append(path, Head(rest)), Tail(rest))
    ELSE InsertChars(t, Append(path, Head(rest)), Tail(rest))

\* the last node counted as a new word whatever it holds
NewWordAlways(node) == TRUE

\* if not current_node.is_end_of_word
NewWord(node) == ~node.is_end_of_word

\* the end of insert_word: the node the word leads to is marked, and the word
\* counted, when no word ended there before
MarkEnd(t, count, word) ==
    IF NewWord(t[word])
    THEN [root |-> [t EXCEPT ![word] =
                       [@ EXCEPT !.is_end_of_word = TRUE, !.word = word]],
          word_count |-> count + 1]
    ELSE [root |-> t, word_count |-> count]

\* insert_word(word) on the trie t with count words: the trie and the count it
\* leaves.  None and "" return at once, and so does a word that is empty once
\* lower-cased and stripped.
insert_word(t, count, word) ==
    IF word = None \/ word = <<>> THEN [root |-> t, word_count |-> count]
    ELSE IF strip(lower(word)) = <<>> THEN [root |-> t, word_count |-> count]
    ELSE MarkEnd(InsertChars(t, <<>>, strip(lower(word))), count,
                 strip(lower(word)))

\* the descent of search_word and get_suggestions from the node at path along
\* the characters of rest: the node reached, or None when a character is not
\* among the children
RECURSIVE Descend(_, _, _)
Descend(t, path, rest) ==
    IF rest = <<>> THEN path
    ELSE IF Head(rest) \notin t[path].children THEN None
    ELSE Descend(t, Append(path, Head(rest)), Tail(rest))

\* a word found wherever the descent ends
EndOfWordAnywhere(node) == TRUE

\* return current_node.is_end_of_word
EndOfWord(node) == node.is_end_of_word

\* search_word(word) for a str
SearchFrom(t, node) == IF node = None THEN FALSE ELSE EndOfWord(t[node])

search_word(t, word) == SearchFrom(t, Descend(t, <<>>, strip(lower(word))))

\* _collect_words(node, suggestions, max_suggestions): the list suggestions as
\* the call leaves it.  CollectChildren is its loop over the sorted keys, keys
\* being those still to visit.
RECURSIVE CollectWords(_, _, _, _)
RECURSIVE CollectChildren(_, _, _, _, _)
CollectWords(t, node, suggestions, max_suggestions) ==
    IF Len(suggestions) >= max_suggestions THEN suggestions
    ELSE CollectChildren(t, node, sorted(t[node].children),
             IF t[node].is_end_of_word /\ t[node].word \notin {None, <<>>}
             THEN Append(suggestions, t[node].word)
             ELSE suggestions,
             max_suggestions)

CollectChildren(t, node, keys, suggestions, max_suggestions) ==
    IF keys = <<>> THEN suggestions
    ELSE IF Len(suggestions) >= max_suggestions THEN suggestions
    ELSE CollectChildren(t, node, Tail(keys),
             CollectWords(t, Append(node, Head(keys)), suggestions,
                          max_suggestions),
             max_suggestions)

\* suggestions[:max_suggestions] for max_suggestions >= 0
Slice(suggestions, max_suggestions) ==
    IF Len(suggestions) <= max_suggestions THEN suggestions
    ELSE SubSeq(suggestions, 1, max_suggestions)

\* get_suggestions from the node the prefix leads to
SuggestionsFrom(t, node, max_suggestions) ==
    IF node = None THEN <<>>
    ELSE Slice(CollectWords(t, node, <<>>, max_suggestions), max_suggestions)

\* get_suggestions(prefix, max_suggestions): None and "" return [] before the
\* prefix is lower-cased and stripped
get_suggestions(t, prefix, max_suggestions) ==
    IF prefix = None \/ prefix = <<>> THEN <<>>
    ELSE SuggestionsFrom(t, Descend(t, <<>>, strip(lower(prefix))),
                         max_suggestions)

\* get_word_count()
get_word_count(count) == count

\* the largest max_suggestions asked for
MaxSuggestions == 3

\* the words given to insert_word: None, the empty and a whitespace-only word,
\* words in capitals or with whitespace around them, a word and its
\* continuations, and a word with a blank inside
TrieWords ==
    {None, <<>>, <<" ">>, <<"a">>, <<" ", "A">>, <<"a", "b">>, <<"b">>,
     <<"a", " ", "b">>}

\* the words searched for
SearchWords ==
    {<<>>, <<" ">>, <<"a">>, <<"A", " ">>, <<"a", "B">>, <<"a", "a">>,
     <<"b">>, <<"a", " ", "b">>, <<"b", "a">>, <<"a", " ">>}

\* the prefixes suggestions are asked for
Prefixes ==
    {None, <<>>, <<" ">>, <<"\t", " ">>, <<"a">>, <<"A", " ">>, <<"a", "b">>,
     <<"b">>, <<"b", "a">>}

\* common_words, cut to four words, one of them listed twice
common_words == <<<<"a">>, <<"a", "b">>, <<"b">>, <<"a", "b">>>>

\* the words of a list inserted one after another: for word in common_words
RECURSIVE InsertAll(_, _, _)
InsertAll(t, count, words) ==
    IF words = <<>> THEN [root |-> t, word_count |-> count]
    ELSE InsertAll(insert_word(t, count, Head(words)).root,
                   insert_word(t, count, Head(words)).word_count,
                   Tail(words))

\* a call of insert_word(word)
InsertWord ==
    /\ \E word \in TrieWords :
          /\ root' = insert_word(root, word_count, word).root
          /\ word_count' = insert_word(root, word_count, word).word_count
          /\ added' = added \cup {word}
          /\ asked' = [NotAsked EXCEPT !.op = "insert_word", !.word = word]
    /\ UNCHANGED <<sequential, seen, inv>>

\* SearchEngine._load_common_words() on the trie just created: the words of the
\* list are inserted, and the count is read for the message
LoadCommonWords ==
    /\ added = {}
    /\ root' = InsertAll(root, word_count, common_words).root
    /\ word_count' = InsertAll(root, word_count, common_words).word_count
    /\ added' = {common_words[k] : k \in 1..Len(common_words)}
    /\ asked' = [NotAsked EXCEPT !.op = "_load_common_words",
                                 !.count = get_word_count(word_count')]
    /\ UNCHANGED <<sequential, seen, inv>>

\* a call of search_word(word)
SearchWord ==
    /\ \E word \in SearchWords :
          asked' = [NotAsked EXCEPT !.op = "search_word", !.word = word,
                                    !.found = search_word(root, word)]
    /\ UNCHANGED <<sequential, seen, inv, root, word_count, added>>

\* a call of get_suggestions(prefix, max_suggestions)
GetSuggestions ==
    /\ \E prefix \in Prefixes, max_suggestions \in 0..MaxSuggestions :
          asked' = [NotAsked EXCEPT
                       !.op = "get_suggestions", !.word = prefix,
                       !.max_suggestions = max_suggestions,
                       !.suggestions =
                           get_suggestions(root, prefix, max_suggestions)]
    /\ UNCHANGED <<sequential, seen, inv, root, word_count, added>>

\* a call of get_word_count()
GetWordCount ==
    /\ asked' = [NotAsked EXCEPT !.op = "get_word_count",
                                 !.count = get_word_count(word_count)]
    /\ UNCHANGED <<sequential, seen, inv, root, word_count, added>>

NextTrie ==
    \/ InsertWord
    \/ LoadCommonWords
    \/ SearchWord
    \/ GetSuggestions
    \/ GetWordCount

SpecTrie == Init /\ [][NextTrie]_vars

(***************************************************************************)
(* Notions the properties are stated with, defined apart from the code.    *)
(***************************************************************************)
Range(s) == {s[k] : k \in 1..Len(s)}

Abs(x) == IF x < 0 THEN 0 - x ELSE x

\* the sequences one insertion, deletion or substitution away from s, the
\* tokens written being those of T
OneEdit(s, T) ==
    {SubSeq(s, 1, k - 1) \o SubSeq(s, k + 1, Len(s)) : k \in 1..Len(s)}
        \cup {SubSeq(s, 1, k) \o <<t>> \o SubSeq(s, k + 1, Len(s)) :
                  k \in 0..Len(s), t \in T}
        \cup {[s EXCEPT ![k] = t] : k \in 1..Len(s), t \in T}

\* the least k for which some sequence is r edits from one end and k - r
\* edits from the other: A and B are the sequences some number of edits from
\* either end, k edits in all, and the smaller side is extended by one edit.
\* An edit undone is an edit, so such a sequence is a way of k edits from end
\* to end, and every way of k edits passes through one, however k is split.
RECURSIVE EditSearch(_, _, _, _)
EditSearch(A, B, T, k) ==
    IF A \cap B # {} THEN k
    ELSE IF Cardinality(A) <= Cardinality(B)
    THEN EditSearch(UNION {OneEdit(s, T) : s \in A}, B, T, k + 1)
    ELSE EditSearch(A, UNION {OneEdit(s, T) : s \in B}, T, k + 1)

\* the edit distance: the least number of single-token edits that turn a into b
\* (an edit that writes a token of neither sequence never shortens the way)
MinEdits(a, b) == EditSearch({a}, {b}, Range(a) \cup Range(b), 0)

\* None, empty or whitespace only
Blank(s) == s = None \/ \A k \in 1..Len(s) : s[k] \in Whitespace

\* the places of s where a whitespace-delimited token starts, and where one ends
TokenStarts(s) ==
    {k \in 1..Len(s) : s[k] \notin Whitespace /\ (k = 1 \/ s[k - 1] \in Whitespace)}
TokenEnds(s) ==
    {k \in 1..Len(s) : s[k] \notin Whitespace /\ (k = Len(s) \/ s[k + 1] \in Whitespace)}

\* the number of whitespace-delimited tokens of a text; None has none
TokenCount(s) == IF s = None THEN 0 ELSE Cardinality(TokenStarts(s))

\* the n-th smallest element of a set of numbers
Nth(S, n) == CHOOSE x \in S : Cardinality({y \in S : y < x}) = n - 1

\* the whitespace-delimited tokens of a text, left to right; None has none
TokensOf(s) ==
    IF s = None THEN <<>>
    ELSE [k \in 1..Cardinality(TokenStarts(s)) |->
             SubSeq(s, Nth(TokenStarts(s), k), Nth(TokenEnds(s), k))]

\* the characters of s from first to last, lower-cased
LowerCased(s, first, last) ==
    [k \in 1..(last - first + 1) |-> LowerChar(s[first + k - 1])]

\* a string lower-cased and without its surrounding whitespace: what lies
\* between its first and its last character that is no whitespace
NormalForm(s) ==
    IF \A k \in 1..Len(s) : s[k] \in Whitespace THEN <<>>
    ELSE LowerCased(s,
             CHOOSE k \in 1..Len(s) :
                 s[k] \notin Whitespace /\ \A l \in 1..(k - 1) : s[l] \in Whitespace,
             CHOOSE k \in 1..Len(s) :
                 s[k] \notin Whitespace /\ \A l \in (k + 1)..Len(s) : s[l] \in Whitespace)

MatrixDone == op = "levenshtein_matrix" /\ pc = "done"
ScoreDone == op = "get_pronunciation_score" /\ pc = "done"
Walking == op = "compare_words" /\ pc = "loop"
CompareDone == op = "compare_words" /\ pc = "done"

(***************************************************************************)
(* C1: the bottom-right cell of levenshtein_matrix(seq1, seq2) is the      *)
(* least number of single-token insertions, deletions and substitutions    *)
(* that turn seq1 into seq2, for strings (a direct call) and for word      *)
(* lists (the matrix compare_words builds).                                *)
(***************************************************************************)
C1_BottomRightIsEditDistance ==
    /\ MatrixDone => Cell(matrix, Len(s1), Len(s2)) = MinEdits(s1, s2)
    /\ (Walking /\ steps = 0) =>
           Cell(matrix, Len(words1), Len(words2_lower)) = MinEdits(words1, words2_lower)

\* a direct call on sequences of different lengths that are two edits apart
C1_Witness ==
    /\ MatrixDone
    /\ s1 = <<"a", "b", "a">>
    /\ s2 = <<"b", "b">>
    /\ Cell(matrix, 3, 2) = 2

(***************************************************************************)
(* C2: compare_words returns as many entries as the candidate has          *)
(* whitespace-delimited tokens; during the walk the entries emitted so far *)
(* are as many as the candidate tokens consumed, so a step that consumes a *)
(* candidate token emits one entry and an up step emits none.              *)
(***************************************************************************)
C2_OneEntryPerCandidateToken ==
    (op = "compare_words" /\ exc = "none") =>
        /\ pc = "loop" => Len(alignment) = TokenCount(s2) - j
        /\ pc = "done" => Len(result) = TokenCount(s2)

\* a finished walk that took an up step and emitted two entries
C2_Witness ==
    /\ CompareDone
    /\ Len(result) = 2
    /\ steps = 3
    /\ Len(words1) = 3

(***************************************************************************)
(* C3: the words of the entries compare_words returns, read in order, are  *)
(* the whitespace-delimited tokens of the candidate from left to right.    *)
(***************************************************************************)
C3_EntriesInCandidateOrder ==
    (CompareDone /\ exc = "none") =>
        [k \in 1..Len(result) |-> result[k].word] = TokensOf(s2)

\* three different candidate words returned in the order they were written
C3_Witness ==
    /\ CompareDone
    /\ s2 = <<"\t", "a", " ", " ", "B", "a", " ", " ", "B", "a", " ">>
    /\ Len(result) = 3
    /\ result[1].word = <<"a">>
    /\ result[2].word = <<"B", "a">>
    /\ result[3].word = <<"B", "a">>

(***************************************************************************)
(* C4: at a visited cell (i, j) with i > 0 and j > 0 whose reference token *)
(* equals the case-folded candidate token, the walk emits a Correct entry  *)
(* for the candidate token and moves to (i-1, j-1), whatever the           *)
(* neighbouring cells of the matrix hold.                                  *)
(***************************************************************************)
C4_MatchStep ==
    /\ alignment' = Append(alignment, Entry(words2[j], "green", "correct"))
    /\ i' = i - 1
    /\ j' = j - 1

\* C4: a step from a cell with equal tokens is the match step
C4_MatchTakesDiagonal ==
    [][(Walking /\ i > 0 /\ j > 0 /\ words1[i] = lower(words2[j])) => C4_MatchStep]_vars

\* a match just taken at a cell whose value is also its left neighbour's plus one
C4_Witness ==
    /\ Walking
    /\ branch = "match"
    /\ alignment # <<>>
    /\ alignment[Len(alignment)].status = "correct"
    /\ Cell(matrix, i + 1, j + 1) = Cell(matrix, i + 1, j) + 1

(***************************************************************************)
(* C5: at a visited cell (i, j) with i > 0, j > 0 and unequal tokens, the  *)
(* walk emits a Substitution and moves diagonally whenever                 *)
(* matrix[i][j] = matrix[i-1][j-1] + 1, ties with the left and upper       *)
(* neighbours included; it emits an Insertion and moves left only when     *)
(* that fails, and moves up without an entry only when the substitution    *)
(* and the insertion conditions both fail.                                 *)
(***************************************************************************)
C5_SubCond == Cell(matrix, i, j) = Cell(matrix, i - 1, j - 1) + 1
C5_InsCond == Cell(matrix, i, j) = Cell(matrix, i, j - 1) + 1

C5_SubStep ==
    /\ alignment' = Append(alignment, Entry(words2[j], "red", "substitution"))
    /\ i' = i - 1
    /\ j' = j - 1

C5_InsStep ==
    /\ alignment' = Append(alignment, Entry(words2[j], "red", "insertion"))
    /\ i' = i
    /\ j' = j - 1

C5_DelStep ==
    /\ alignment' = alignment
    /\ i' = i - 1
    /\ j' = j

\* C5: a step from a cell with unequal tokens follows the priority substitution,
\* insertion, deletion
C5_SubstitutionBeforeInsertionBeforeDeletion ==
    [][(Walking /\ i > 0 /\ j > 0 /\ words1[i] # lower(words2[j])) =>
           /\ C5_SubCond => C5_SubStep
           /\ C5_InsStep => (~C5_SubCond /\ C5_InsCond)
           /\ C5_DelStep => (~C5_SubCond /\ ~C5_InsCond)
           /\ C5_SubStep \/ C5_InsStep \/ C5_DelStep]_vars

\* a substitution just taken at a cell where an insertion cost the same
C5_Witness ==
    /\ Walking
    /\ branch = "substitution"
    /\ alignment # <<>>
    /\ alignment[Len(alignment)].status = "substitution"
    /\ Cell(matrix, i + 1, j + 1) = Cell(matrix, i + 1, j) + 1

(***************************************************************************)
(* C6: with n reference tokens and m candidate tokens the walk starts at   *)
(* (n, m), every step lowers i + j and raises neither index, the walk has  *)
(* made at most n + m steps at any time, and it stops at (0, 0) only.      *)
(***************************************************************************)
C6_WalkBounded ==
    (op = "compare_words" /\ exc = "none") =>
        /\ (pc = "loop" /\ steps = 0) => (i = TokenCount(s1) /\ j = TokenCount(s2))
        /\ i >= 0
        /\ j >= 0
        /\ steps + i + j <= TokenCount(s1) + TokenCount(s2)
        /\ pc = "done" => (i = 0 /\ j = 0)
        /\ (pc = "loop" /\ i = 0 /\ j = 0) => ENABLED CompareReturn

C6_WalkDescends ==
    [][(Walking /\ (i > 0 \/ j > 0)) =>
           (i' <= i /\ j' <= j /\ i' + j' < i + j /\ steps' = steps + 1)]_vars

\* C6: the walk is bounded by n + m steps and every step descends
C6_WalkTerminatesWithinNPlusM == []C6_WalkBounded /\ C6_WalkDescends

\* a finished walk that needed all of its n + m steps
C6_Witness ==
    /\ CompareDone
    /\ exc = "none"
    /\ steps = Len(words1) + Len(words2)
    /\ steps >= 2
    /\ i = 0
    /\ j = 0

(***************************************************************************)
(* C7: get_pronunciation_score returns 100.0 when both inputs are None,    *)
(* empty or whitespace only, and 0.0 when exactly one of them is.          *)
(***************************************************************************)
C7_EmptyInputs ==
    ScoreDone =>
        /\ (Blank(s1) /\ Blank(s2)) => (exc = "none" /\ score = 10000)
        /\ (Blank(s1) # Blank(s2)) => (exc = "none" /\ score = 0)

\* None against a whitespace-only string scores 100.0
C7_Witness ==
    /\ ScoreDone
    /\ s1 = None
    /\ s2 = <<" ", " ">>
    /\ score = 10000

(***************************************************************************)
(* C8: for string-or-None inputs get_pronunciation_score raises nothing    *)
(* and returns a score in [0, 100]; the distance never exceeds the length  *)
(* of the longer normalized string, so the clamp to 0.0 changes nothing.   *)
(***************************************************************************)
C8_ScoreInRange ==
    ScoreDone =>
        /\ exc = "none"
        /\ score >= 0
        /\ score <= 10000
        /\ distance >= 0
        /\ distance <= max_len

\* the distance reaches the length of the longer string: the score is 0.0
C8_Witness ==
    /\ ScoreDone
    /\ max_len = 2
    /\ distance = 2
    /\ score = 0

(***************************************************************************)
(* C9: for inputs that are both non-empty after normalization the score is *)
(* (1 - d / L) * 100 rounded to two decimals, d being the edit distance of *)
(* the lower-cased, trimmed strings and L the length of the longer one;    *)
(* for "The quick brown fox" and "The quick brwn fox" d = 1, L = 19 and    *)
(* the score is 94.74.                                                     *)
(***************************************************************************)
C9_ScoreIs(d, L) ==
    /\ distance = d
    /\ max_len = L
    \* score is the hundredth nearest to 10000 * (L - d) / L
    /\ 2 * Abs(score * L - 10000 * (L - d)) <= L
    /\ (s1 = QuickBrownFox /\ s2 = QuickBrwnFox) => (d = 1 /\ L = 19 /\ score = 9474)
    /\ (s1 = ThisIsATest /\ s2 = ThisIsTest) => (d = 2 /\ L = 14 /\ score = 8571)

C9_ScoreOf(a, b) ==
    C9_ScoreIs(MinEdits(a, b), IF Len(a) >= Len(b) THEN Len(a) ELSE Len(b))

\* C9: the score of two non-blank inputs is (1 - d / L) * 100 to two decimals
C9_ScoreFormula ==
    (ScoreDone /\ ~Blank(s1) /\ ~Blank(s2)) => C9_ScoreOf(NormalForm(s1), NormalForm(s2))

\* test case 2 of the code scored
C9_Witness ==
    /\ ScoreDone
    /\ s1 = QuickBrownFox
    /\ s2 = QuickBrwnFox
    /\ score = 9474

(***************************************************************************)
(* C10: two strings that are equal after lower-casing and trimming score   *)
(* 100.0, whatever their letter case and surrounding whitespace.           *)
(***************************************************************************)
C10_EqualAfterNormalizationIsFull ==
    (ScoreDone /\ s1 # None /\ s2 # None /\ NormalForm(s1) = NormalForm(s2)) =>
        (exc = "none" /\ score = 10000)

\* strings that differ in letter case and in surrounding whitespace
C10_Witness ==
    /\ ScoreDone
    /\ s1 = <<" ", "A">>
    /\ s2 = <<"a", " ">>
    /\ score = 10000

(***************************************************************************)
(* C11: when the case-folded tokens of the candidate form a subsequence of *)
(* the case-folded tokens of the reference (the candidate only omits       *)
(* reference words), compare_words returns one Correct entry per candidate *)
(* token and nothing else: an omitted reference word has no entry.         *)
(***************************************************************************)
\* c can be had from r by leaving tokens out
RECURSIVE IsSubsequence(_, _)
IsSubsequence(c, r) ==
    IF c = <<>> THEN TRUE
    ELSE IF r = <<>> THEN FALSE
    ELSE IF Head(c) = Head(r) THEN IsSubsequence(Tail(c), Tail(r))
    ELSE IsSubsequence(c, Tail(r))

\* the tokens ts, each lower-cased
Folded(ts) == [k \in 1..Len(ts) |-> LowerCased(ts[k], 1, Len(ts[k]))]

\* a Correct entry for each of the tokens ts, in their order
AllCorrect(ts) == [k \in 1..Len(ts) |-> Entry(ts[k], "green", "correct")]

C11_WhenOmitting(ref, cand) ==
    IsSubsequence(Folded(cand), Folded(ref)) => result = AllCorrect(cand)

\* C11: a candidate that only omits reference words gets Correct entries only
C11_OmissionsGiveOnlyCorrect ==
    (CompareDone /\ exc = "none") => C11_WhenOmitting(TokensOf(s1), TokensOf(s2))

\* test case 4 of the code: the word "a" is left out and has no entry
C11_Witness ==
    /\ CompareDone
    /\ s1 = ThisIsATest
    /\ s2 = ThisIsTest
    /\ steps = 4
    /\ result = <<Entry(<<"T","h","i","s">>, "green", "correct"),
                  Entry(<<"i","s">>, "green", "correct"),
                  Entry(<<"t","e","s","t">>, "green", "correct")>>

(***************************************************************************)
(* C12: compare_words("I like to code", "I love coding") returns three     *)
(* entries, one per candidate word: Correct("I"), then "love" as a         *)
(* Substitution, then "coding" as a Substitution or an Insertion.          *)
(***************************************************************************)
C12_TestCase3 ==
    (CompareDone /\ s1 = ILikeToCode /\ s2 = ILoveCoding) =>
        /\ exc = "none"
        /\ Len(result) = 3
        /\ result[1] = Entry(<<"I">>, "green", "correct")
        /\ result[2].word = <<"l","o","v","e">>
        /\ result[2].status = "substitution"
        /\ result[3].word = <<"c","o","d","i","n","g">>
        /\ result[3].status \in {"substitution", "insertion"}

\* test case 3 of the code walked to its end: "coding" is a Substitution, and
\* one of the four steps was the up step over the reference word "like"
C12_Witness ==
    /\ CompareDone
    /\ s1 = ILikeToCode
    /\ s2 = ILoveCoding
    /\ steps = 4
    /\ result[3].status = "substitution"

(***************************************************************************)
(* C13: the bottom-right cell of levenshtein_matrix(a, a) is 0, for a      *)
(* string compared with itself and for the matrix compare_words builds     *)
(* when the two word lists are equal.                                      *)
(***************************************************************************)
C13_SelfDistanceIsZero ==
    /\ (MatrixDone /\ s1 = s2) => Cell(matrix, Len(s1), Len(s2)) = 0
    /\ (Walking /\ steps = 0 /\ words1 = words2_lower) =>
           Cell(matrix, Len(words1), Len(words2_lower)) = 0

\* a sequence of three tokens compared with itself
C13_Witness ==
    /\ MatrixDone
    /\ s1 = <<"a", "b", "a">>
    /\ s2 = s1
    /\ Cell(matrix, 3, 3) = 0

(***************************************************************************)
(* C14: the bottom-right cell of levenshtein_matrix(a, b) equals the       *)
(* bottom-right cell of levenshtein_matrix(b, a).                          *)
(***************************************************************************)
C14_DistanceIsSymmetric ==
    MatrixDone => Cell(matrix, Len(s1), Len(s2)) = Distance(s2, s1)

\* sequences of different lengths, one edit apart either way round
C14_Witness ==
    /\ MatrixDone
    /\ s1 = <<"a", "b">>
    /\ s2 = <<"b">>
    /\ Cell(matrix, 2, 1) = 1
    /\ Distance(s2, s1) = 1

(***************************************************************************)
(* C15: the distance levenshtein_matrix computes from a to c is at most    *)
(* the distance from a to b plus the distance from b to c, whatever the    *)
(* sequence b.                                                             *)
(***************************************************************************)
C15_TriangleInequality ==
    MatrixDone =>
        \A b \in MatrixSeqs :
            Cell(matrix, Len(s1), Len(s2)) <= Distance(s1, b) + Distance(b, s2)

\* three edits apart, and a sequence between them one edit from the first and
\* two from the second: the inequality is an equality
C15_Witness ==
    /\ MatrixDone
    /\ s1 = <<"a", "a", "a">>
    /\ s2 = <<"b", "b", "b">>
    /\ Cell(matrix, 3, 3) = 3
    /\ Distance(s1, <<"a", "a", "b">>) = 1
    /\ Distance(<<"a", "a", "b">>, s2) = 2

(***************************************************************************)
(* C16: compare_words and get_pronunciation_score are deterministic and    *)
(* stateless: a call returns (or raises) what an earlier call with the     *)
(* same arguments did, whatever calls were made before the two and between *)
(* them.                                                                   *)
(***************************************************************************)
C16_SameInputsSameResult ==
    (pc = "done" /\ seen.op = op /\ seen.s1 = s1 /\ seen.s2 = s2) =>
        /\ exc = seen.exc
        /\ result = seen.result
        /\ score = seen.score

\* compare_words called a second time with the arguments of a call kept, other
\* calls having ended between the two, and returning the same entries
C16_Witness ==
    /\ CompareDone
    /\ seen.op = "compare_words"
    /\ seen.between
    /\ s1 = <<"a">>
    /\ s2 = <<"B", "a">>
    /\ seen.s1 = s1
    /\ seen.s2 = s2
    /\ result = <<Entry(<<"B", "a">>, "red", "substitution")>>
    /\ result = seen.result

(***************************************************************************)
(* C17: of invocations of levenshtein_matrix, get_pronunciation_score and  *)
(* compare_words that run concurrently, their steps interleaved in any     *)
(* order, each returns what it returns when it runs alone; and a step of   *)
(* one invocation changes no local of another.                             *)
(***************************************************************************)
\* invocation p has returned what the operation returns when run alone
C17_AsAlone(c) ==
    CASE c.op = "levenshtein_matrix" -> c.matrix = levenshtein_matrix(c.s1, c.s2)
      [] c.op = "get_pronunciation_score" ->
             /\ c.exc = get_pronunciation_score(c.s1, c.s2).exc
             /\ c.score = get_pronunciation_score(c.s1, c.s2).score
      [] c.op = "compare_words" ->
             /\ c.exc = compare_words(c.s1, c.s2).exc
             /\ c.result = compare_words(c.s1, c.s2).result

C17_ReturnsAsAlone == \A p \in Invocations : inv[p].pc = "done" => C17_AsAlone(inv[p])

\* a step changes the locals of one invocation at most
C17_OwnLocalsOnly ==
    \A p \in Invocations, q \in Invocations :
        (inv'[p] # inv[p] /\ q # p) => inv'[q] = inv[q]

\* C17: every interleaving gives each invocation its result when run alone
C17_ConcurrentAsAlone == []C17_ReturnsAsAlone /\ [][C17_OwnLocalsOnly]_vars

\* invocation 1 has returned from compare_words while invocation 2, called on
\* other texts, is in the middle of its loop with one entry emitted
C17_Witness ==
    /\ inv[1].op = "compare_words"
    /\ inv[1].pc = "done"
    /\ inv[1].s1 = <<"a", " ", "B", "a">>
    /\ inv[1].s2 = <<"a">>
    /\ inv[1].result = <<Entry(<<"a">>, "green", "correct")>>
    /\ inv[2].op = "compare_words"
    /\ inv[2].pc = "loop"
    /\ inv[2].s2 = <<"a", " ", "B", "a">>
    /\ Len(inv[2].alignment) = 1
    /\ inv[2].j = 1

(***************************************************************************)
(* C18: a call of get_pronunciation_score or compare_words with an         *)
(* argument that has no attribute lower or strip (an int, a list) fails    *)
(* with AttributeError, the only failure the two operations signal; with   *)
(* strings, None or bytes they fail not at all.                            *)
(***************************************************************************)
Scoring == op = "get_pronunciation_score"
Comparing == op = "compare_words"

\* the arguments the str methods cannot be called on
WithoutStrMethods == {IntArg, ListArg}

C18_OnlyAttributeError ==
    (Scoring \/ Comparing) =>
        /\ exc \in {"none", "AttributeError"}
        /\ exc = "AttributeError" <=>
               (s1 \in WithoutStrMethods \/ s2 \in WithoutStrMethods)

\* C18 as first stated: an argument that is neither a string nor None makes
\* the call fail with InvalidInputError
C18_NonTextRaisesInvalidInput ==
    ((Scoring \/ Comparing) /\ (s1 \in NonTextArgs \/ s2 \in NonTextArgs)) =>
        exc = "InvalidInputError"

\* compare_words given a string and an int has failed with AttributeError
C18_Witness ==
    /\ CompareDone
    /\ s1 = <<"a">>
    /\ s2 = IntArg
    /\ exc = "AttributeError"
    /\ result = <<>>

(***************************************************************************)
(* C19: compare_words raises nothing when its arguments are strings or     *)
(* None, and None counts as the empty string: a reference that is None,    *)
(* empty or whitespace only gives one Insertion entry per candidate token, *)
(* and a candidate that is None, empty or whitespace only gives the empty  *)
(* list.                                                                   *)
(***************************************************************************)
\* an Insertion entry for each of the tokens ts, in their order
AllInserted(ts) == [k \in 1..Len(ts) |-> Entry(ts[k], "red", "insertion")]

C19_BlankInputs ==
    /\ op = "compare_words" => exc = "none"
    /\ (CompareDone /\ Blank(s1)) => result = AllInserted(TokensOf(s2))
    /\ (CompareDone /\ Blank(s2)) => result = <<>>

\* no reference at all and a candidate of two words
C19_Witness ==
    /\ CompareDone
    /\ s1 = None
    /\ s2 = <<"\t", "a", " ", " ", "B", "a", " ">>
    /\ exc = "none"
    /\ result = <<Entry(<<"a">>, "red", "insertion"),
                  Entry(<<"B", "a">>, "red", "insertion")>>

(***************************************************************************)
(* C20: the statuses compare_words returns do not depend on letter case:   *)
(* they are those of the call on the lower-cased reference and the         *)
(* lower-cased candidate; and the word of each entry is the candidate      *)
(* token as the caller wrote it.                                           *)
(***************************************************************************)
\* a text lower-cased; None stays None
LowerText(s) == IF s = None THEN None ELSE LowerCased(s, 1, Len(s))

Statuses(r) == [k \in 1..Len(r) |-> r[k].status]

WordsOf(r) == [k \in 1..Len(r) |-> r[k].word]

C20_CaseDoesNotMatter ==
    (CompareDone /\ exc = "none") =>
        /\ Statuses(result) = Statuses(compare_words(LowerText(s1), LowerText(s2)).result)
        /\ WordsOf(result) = TokensOf(s2)

\* a capitalised word of the candidate found Correct against the capitalised
\* reference, as it is when both are lower-cased, and returned capitalised
C20_Witness ==
    /\ CompareDone
    /\ s1 = <<"a", " ", "B", "a">>
    /\ s2 = <<"B", "a">>
    /\ result = <<Entry(<<"B", "a">>, "green", "correct")>>
    /\ compare_words(<<"a", " ", "b", "a">>, <<"b", "a">>).result =
           <<Entry(<<"b", "a">>, "green", "correct")>>

(***************************************************************************)
(* C21: in every matrix levenshtein_matrix builds, each cell (i, j) with   *)
(* i >= 1 and j >= 1 differs by at most 1 from the cell above it, the cell *)
(* left of it and the cell diagonally above and left of it; for a direct   *)
(* call and for the matrix compare_words builds.                           *)
(***************************************************************************)
C21_Near(x, y) == Abs(x - y) <= 1

C21_NeighboursNear(m) ==
    \A r \in 1..(Len(m) - 1) :
        \A c \in 1..(Len(m[1]) - 1) :
            /\ C21_Near(Cell(m, r, c), Cell(m, r - 1, c))
            /\ C21_Near(Cell(m, r, c), Cell(m, r, c - 1))
            /\ C21_Near(Cell(m, r, c), Cell(m, r - 1, c - 1))

\* C21: neighbouring cells differ by at most 1
C21_NeighbouringCellsDifferByOne ==
    (MatrixDone \/ (Walking /\ steps = 0)) => C21_NeighboursNear(matrix)

\* a matrix in which a cell equals two of its neighbours and is one less than
\* the third
C21_Witness ==
    /\ MatrixDone
    /\ s1 = <<"a", "b">>
    /\ s2 = <<"b", "b">>
    /\ Cell(matrix, 2, 2) = 1
    /\ Cell(matrix, 1, 1) = 1
    /\ Cell(matrix, 2, 1) = 1
    /\ Cell(matrix, 1, 2) = 2

(***************************************************************************)
(* C22: for a reference of n tokens, the reference words the walk of       *)
(* compare_words skips (the iterations that emit no entry, moving up) are  *)
(* as many as n minus the Correct and Substitution entries returned; so    *)
(* the Correct and Substitution entries are n at most.  During the walk    *)
(* the same holds of the n - i reference tokens passed so far.             *)
(***************************************************************************)
\* the entries of r whose status is one of S
CountStatus(r, S) == Cardinality({k \in 1..Len(r) : r[k].status \in S})

C22_Skipped(n, entries) == n - CountStatus(entries, {"correct", "substitution"})

\* C22: the skipped reference words are n minus the Correct and Substitution
\* entries
C22_SkippedReferenceWords ==
    (op = "compare_words" /\ exc = "none") =>
        /\ pc = "loop" =>
               steps - Len(alignment) = C22_Skipped(TokenCount(s1) - i, alignment)
        /\ pc = "done" =>
               /\ steps - Len(result) = C22_Skipped(TokenCount(s1), result)
               /\ CountStatus(result, {"correct", "substitution"}) <= TokenCount(s1)

\* a finished walk over three reference words that skipped one of them, found
\* one Correct and substituted one
C22_Witness ==
    /\ CompareDone
    /\ TokenCount(s1) = 3
    /\ steps - Len(result) = 1
    /\ CountStatus(result, {"correct"}) = 1
    /\ CountStatus(result, {"substitution"}) = 1
    /\ CountStatus(result, {"insertion"}) = 0

(***************************************************************************)
(* C23: levenshtein_matrix(seq1, seq2) returns len(seq1) + 1 rows of       *)
(* len(seq2) + 1 cells, with matrix[i][0] = i and matrix[0][j] = j, and    *)
(* every other cell the least of the cell above plus 1, the cell to the    *)
(* left plus 1 and the diagonal cell plus cost, cost being 0 when          *)
(* seq1[i-1] and seq2[j-1] are the same token exactly, and 1 otherwise.    *)
(***************************************************************************)
C23_Least(x, y, z) == CHOOSE v \in {x, y, z} : \A w \in {x, y, z} : v <= w

C23_Grid(m, a, b) ==
    /\ Len(m) = Len(a) + 1
    /\ \A r \in 1..Len(m) : Len(m[r]) = Len(b) + 1
    /\ \A r \in 0..Len(a) : m[r + 1][1] = r
    /\ \A c \in 0..Len(b) : m[1][c + 1] = c
    /\ \A r \in 1..Len(a) :
           \A c \in 1..Len(b) :
               m[r + 1][c + 1] =
                   C23_Least(m[r][c + 1] + 1, m[r + 1][c] + 1,
                             m[r][c] + (IF a[r] = b[c] THEN 0 ELSE 1))

\* C23: the shape, the first row and column, and the recurrence of the matrix
C23_MatrixRecurrence ==
    /\ MatrixDone => C23_Grid(matrix, s1, s2)
    /\ (Walking /\ steps = 0) => C23_Grid(matrix, words1, words2_lower)

\* a capital letter and its small letter are different tokens: cost 1
C23_Witness ==
    /\ MatrixDone
    /\ s1 = <<"a", "A">>
    /\ s2 = <<"a", "a">>
    /\ matrix = << <<0, 1, 2>>, <<1, 0, 1>>, <<2, 1, 1>> >>

(***************************************************************************)
(* C24: the fallback branch of compare_words is never taken: at every cell *)
(* the walk visits, the match, the substitution, the insertion or the      *)
(* deletion condition holds; so every entry is Correct, a Substitution or  *)
(* an Insertion, and none has the status unknown.                          *)
(***************************************************************************)
\* one of the four conditions holds at the cell the walk is at
C24_SomeArmApplies ==
    \/ i > 0 /\ j > 0 /\ words1[i] = words2_lower[j]
    \/ i > 0 /\ j > 0 /\ Cell(matrix, i, j) = Cell(matrix, i - 1, j - 1) + 1
    \/ j > 0 /\ Cell(matrix, i, j) = Cell(matrix, i, j - 1) + 1
    \/ i > 0 /\ Cell(matrix, i, j) = Cell(matrix, i - 1, j) + 1

C24_KnownStatuses(r) ==
    \A k \in 1..Len(r) : r[k].status \in {"correct", "substitution", "insertion"}

\* C24: no fallback, no unknown entry
C24_FallbackNeverTaken ==
    (op = "compare_words" /\ exc = "none") =>
        /\ (pc = "loop" /\ (i > 0 \/ j > 0)) => C24_SomeArmApplies
        /\ branch \notin {"fallback_left", "fallback_up"}
        /\ C24_KnownStatuses(alignment)
        /\ C24_KnownStatuses(result)

\* the walk at a cell with a candidate word left where only the deletion
\* condition holds
C24_Witness ==
    /\ Walking
    /\ i = 2
    /\ j = 1
    /\ words1[i] # words2_lower[j]
    /\ Cell(matrix, i, j) # Cell(matrix, i - 1, j - 1) + 1
    /\ Cell(matrix, i, j) # Cell(matrix, i, j - 1) + 1
    /\ Cell(matrix, i, j) = Cell(matrix, i - 1, j) + 1

(***************************************************************************)
(* C25: the walk of compare_words follows a path of least cost: at every   *)
(* cell (i, j) it visits, the cost spent so far (the Substitution entries, *)
(* the Insertion entries and the up moves) plus matrix[i][j] is            *)
(* matrix[n][m]; so at the return the cost spent is matrix[n][m], the      *)
(* word-level edit distance.                                               *)
(***************************************************************************)
\* the cost of the steps taken, entries being the entries they emitted: a step
\* that emitted no entry is an up move
C25_Spent(entries) ==
    (steps - Len(entries)) + CountStatus(entries, {"substitution", "insertion"})

C25_Total == Cell(matrix, Len(words1), Len(words2_lower))

\* C25: the cost spent and the cost left add up to the distance
C25_WalkIsMinimumCostPath ==
    (op = "compare_words" /\ exc = "none") =>
        /\ pc = "loop" => C25_Spent(alignment) + Cell(matrix, i, j) = C25_Total
        /\ pc = "done" => C25_Spent(result) = C25_Total

\* test case 3 of the code at its return: two substitutions and one up move,
\* the distance being 3
C25_Witness ==
    /\ CompareDone
    /\ s1 = ILikeToCode
    /\ s2 = ILoveCoding
    /\ CountStatus(result, {"substitution"}) = 2
    /\ steps - Len(result) = 1
    /\ C25_Total = 3

(***************************************************************************)
(* C26: an entry that is Correct or a Substitution is emitted at a cell    *)
(* (i, j) with i >= 1 and is paired with the reference position i, the     *)
(* walk moving on to row i - 1 and never back to a higher row, so that the *)
(* positions paired strictly increase in the list returned; the reference  *)
(* token at the position of a Correct entry is the entry's word            *)
(* case-folded; and the case-folded words of the Correct entries are a     *)
(* common subsequence of the reference tokens and the candidate tokens.    *)
(***************************************************************************)
\* the step has emitted an entry of one of the statuses S
C26_Emits(S) ==
    /\ Len(alignment') = Len(alignment) + 1
    /\ alignment'[Len(alignment')].status \in S

C26_WordEmitted == alignment'[Len(alignment')].word

\* a Correct or Substitution entry takes the reference position i, a Correct
\* one only where the tokens agree, and no step goes back to a higher row
C26_PairedInOrder ==
    [][Walking =>
           /\ i' <= i
           /\ C26_Emits({"correct", "substitution"}) => (i >= 1 /\ i' = i - 1)
           /\ C26_Emits({"correct"}) =>
                  words1[i] = LowerCased(C26_WordEmitted, 1, Len(C26_WordEmitted))]_vars

\* the case-folded words of the Correct entries of r, in their order
C26_CorrectWords(r) ==
    Folded(WordsOf(SelectSeq(r, LAMBDA e : e.status = "correct")))

C26_CommonSubsequence(ref, cand) ==
    /\ words1 = ref
    /\ IsSubsequence(C26_CorrectWords(result), ref)
    /\ IsSubsequence(C26_CorrectWords(result), cand)

C26_CorrectWordsAreCommon ==
    (CompareDone /\ exc = "none") =>
        C26_CommonSubsequence(Folded(TokensOf(s1)), Folded(TokensOf(s2)))

\* C26: the pairing is in order and the Correct words a common subsequence
C26_CorrectEntriesAlign == []C26_CorrectWordsAreCommon /\ C26_PairedInOrder

\* test case 2 of the code at its return: three Correct entries around a
\* Substitution, paired with the reference positions 1, 2, 3 and 4
C26_Witness ==
    /\ CompareDone
    /\ s1 = QuickBrownFox
    /\ s2 = QuickBrwnFox
    /\ steps = 4
    /\ Statuses(result) = <<"correct", "correct", "substitution", "correct">>

(***************************************************************************)
(* The word index.                                                         *)
(***************************************************************************)
\* the words the trie was given that are words at all: the lower-cased,
\* trimmed forms, other than the empty one, of the arguments of insert_word
InsertedForms == {NormalForm(x) : x \in added \ {None}} \ {<<>>}

\* u is the beginning of v
StartsWith(v, u) == Len(u) <= Len(v) /\ SubSeq(v, 1, Len(u)) = u

\* C27: search_word(w) returns True exactly when the lower-cased, trimmed form
\* of w is that of a non-empty word that was inserted (non-empty once
\* lower-cased and trimmed: insert_word keeps nothing of the others); so a
\* proper prefix of an inserted word that was not inserted itself is absent
C27_SearchFindsInsertedWords ==
    asked.op = "search_word" =>
        /\ asked.found <=> NormalForm(asked.word) \in InsertedForms
        /\ (/\ \E v \in InsertedForms :
                  /\ StartsWith(v, NormalForm(asked.word))
                  /\ v # NormalForm(asked.word)
            /\ NormalForm(asked.word) \notin InsertedForms)
               => ~asked.found

\* "A " looked up after "ab" and a whitespace-only word were inserted: "a"
\* begins "ab", was not inserted, and is not found
C27_Witness ==
    /\ asked.op = "search_word"
    /\ asked.word = <<"A", " ">>
    /\ added = {<<"a", "b">>, <<" ">>}
    /\ ~asked.found

\* the count a call returned when it returns one, the count kept otherwise
C28_Counted ==
    IF asked.op \in {"get_word_count", "_load_common_words"}
    THEN asked.count ELSE word_count

\* get_word_count() is the number of distinct non-empty normalized words
\* inserted
C28_CountIsDistinctForms ==
    /\ word_count = Cardinality(InsertedForms)
    /\ C28_Counted = Cardinality(InsertedForms)

\* inserting a word already present, an empty or a whitespace-only word leaves
\* the count as it was
C28_NothingNewNothingCounted ==
    [][(/\ asked'.op = "insert_word"
        /\ asked'.word # None
        /\ \/ NormalForm(asked'.word) = <<>>
           \/ NormalForm(asked'.word) \in InsertedForms)
          => get_word_count(word_count') = get_word_count(word_count)]_vars

\* C28: after any sequence of insert_word calls get_word_count() equals the
\* number of distinct non-empty lower-cased, trimmed words inserted, and a word
\* already present, an empty or a whitespace-only word leaves it unchanged
C28_CountOfDistinctWords ==
    []C28_CountIsDistinctForms /\ C28_NothingNewNothingCounted

\* the count read after "a", " A", "ab", "" and " " were inserted: two words
C28_Witness ==
    /\ asked.op = "get_word_count"
    /\ added = {<<"a">>, <<" ", "A">>, <<"a", "b">>, <<>>, <<" ">>}
    /\ asked.count = 2

\* u comes before v in the order of str: u is a proper beginning of v, or at
\* the first place they differ u has the character of the lower code point
LexLess(u, v) ==
    \/ StartsWith(v, u) /\ u # v
    \/ \E k \in 1..Len(u) :
          /\ k <= Len(v)
          /\ SubSeq(u, 1, k - 1) = SubSeq(v, 1, k - 1)
          /\ ord(u[k]) < ord(v[k])

\* the inserted words that start with the normalized prefix p
C29_Candidates(p) == {w \in InsertedForms : StartsWith(w, NormalForm(p))}

\* the list r holds at most k words, each an inserted word starting with the
\* normalized p, in ascending order and so without duplicates; and the k
\* smallest of them when there are more than k
C29_Suggested(r, p, k) ==
    /\ Len(r) <= k
    /\ \A n \in 1..Len(r) : r[n] \in C29_Candidates(p)
    /\ \A m, n \in 1..Len(r) : m # n => r[m] # r[n]
    /\ \A n \in 1..(Len(r) - 1) : LexLess(r[n], r[n + 1])
    /\ Cardinality(C29_Candidates(p)) > k =>
          /\ Len(r) = k
          /\ \A w \in C29_Candidates(p) \ Range(r) :
                \A n \in 1..Len(r) : LexLess(r[n], w)

\* C29: for a non-empty prefix p and max_suggestions k >= 0, get_suggestions(p,
\* k) returns at most k words, each inserted and starting with the normalized
\* p, without duplicates and in ascending lexicographic order, and the k
\* lexicographically smallest when more than k inserted words start with p
C29_SuggestionsSmallestFirst ==
    (asked.op = "get_suggestions" /\ asked.word \notin {None, <<>>}) =>
        C29_Suggested(asked.suggestions, asked.word, asked.max_suggestions)

\* two suggestions asked for "A " with "ab", "a b" and "a" in the trie, "ab"
\* inserted before "a b": the two smallest of three, "a" and "a b"
C29_Witness ==
    /\ asked.op = "get_suggestions"
    /\ asked.word = <<"A", " ">>
    /\ asked.max_suggestions = 2
    /\ added = {<<"a", "b">>, <<"a", " ", "b">>, <<"a">>}
    /\ asked.suggestions = <<<<"a">>, <<"a", " ", "b">>>>

\* C30: get_suggestions returns the empty list for every prefix that is empty
\* after trimming whitespace, a whitespace-only prefix such as " " included,
\* whatever words the trie contains
C30_BlankPrefixSuggestsNothing ==
    (/\ asked.op = "get_suggestions"
     /\ asked.word # None
     /\ NormalForm(asked.word) = <<>>)
        => asked.suggestions = <<>>

====
